---- MODULE Spec2Model ----
(***************************************************************************)
(* The asynchronous log pipeline of the RTT viewer (src/rtt_python_gui.py): *)
(* the Line Source and the GUI thread put events on                         *)
(* log_processing_input_queue, the worker thread (_log_processing_thread)   *)
(* turns each event into an update_info and puts it on                      *)
(* display_output_queue, and the GUI loop drains that queue into the log    *)
(* widget (_process_display_output_queue).                                  *)
(*                                                                          *)
(* libs/log/log_controller.py, libs/log/log_view.py and libs/jlink/ are not *)
(* part of the sources at hand; what they do is taken from spec.md (the     *)
(* definitions concerned say so).                                           *)
(*                                                                          *)
(* Texts are sequences of one-character strings, so that case folding and   *)
(* substring search are computed.  An optional value (Python None or a      *)
(* value) is a sequence of length 0 or 1.                                   *)
(***************************************************************************)
EXTENDS Naturals, Sequences, FiniteSets

(***************************************************************************)
(* Bounds of the model.                                                     *)
(***************************************************************************)
\* lines the Line Source emits in one run
MaxLines == 1
\* filter / highlight / pause events the GUI thread enqueues in one run
MaxCtl == 2

\* the lines the Line Source may emit
Lines == { <<"a">>, <<"A", "b">> }
\* the texts typed into the filter and highlight inputs
FilterTexts == { <<"B">> }
HighlightTexts == { <<"a">> }

None == <<>>
Some(x) == <<x>>

(***************************************************************************)
(* Filter/Highlight Engine (spec.md 4.2; libs/log/log_controller.py).       *)
(***************************************************************************)
Lower(c) == CASE c = "A" -> "a" [] c = "B" -> "b" [] OTHER -> c

\* text t occurs in s at position i, compared case-insensitively
MatchAt(s, t, i) ==
    /\ i + Len(t) - 1 <= Len(s)
    /\ \A k \in 1..Len(t) : Lower(s[i + k - 1]) = Lower(t[k])

Contains(s, t) == \E i \in 1..(Len(s) + 1) : MatchAt(s, t, i)

PassesFilter(line, filterText) == filterText = <<>> \/ Contains(line, filterText)

\* a pending unhighlighted run, if any
PlainRun(plain) == IF plain = <<>> THEN <<>> ELSE << <<plain, FALSE>> >>

\* leftmost-first, non-overlapping scan for highlightText from position i on
RECURSIVE Runs(_, _, _, _)
Runs(line, highlightText, i, plain) ==
    IF i > Len(line)
    THEN PlainRun(plain)
    ELSE IF highlightText # <<>> /\ MatchAt(line, highlightText, i)
         THEN PlainRun(plain)
              \o << <<SubSeq(line, i, i + Len(highlightText) - 1), TRUE>> >>
              \o Runs(line, highlightText, i + Len(highlightText), <<>>)
         ELSE Runs(line, highlightText, i + 1, Append(plain, line[i]))

\* the end-of-line run that closes the runs of one line in the widget
EndOfLine == << <<"\n">>, FALSE >>

\* None when the line does not pass the filter, else its runs
annotate(line, filterText, highlightText) ==
    IF PassesFilter(line, filterText)
    THEN Some(Runs(line, highlightText, 1, <<>>) \o <<EndOfLine>>)
    ELSE None

\* full path: the runs of every retained line that passes the filter, in the
\* order of the lines (the sequence is split in halves to stay shallow)
RECURSIVE AnnotateAll(_, _, _)
AnnotateAll(lines, filterText, highlightText) ==
    IF Len(lines) = 0
    THEN <<>>
    ELSE IF Len(lines) = 1
    THEN LET a == annotate(lines[1], filterText, highlightText)
         IN IF a = None THEN <<>> ELSE a[1]
    ELSE LET mid == Len(lines) \div 2
         IN AnnotateAll(SubSeq(lines, 1, mid), filterText, highlightText)
            \o AnnotateAll(SubSeq(lines, mid + 1, Len(lines)), filterText, highlightText)

\* the lines a sequence of runs shows: run texts joined up to each end of line
RECURSIVE LinesOf(_, _)
LinesOf(runs, cur) ==
    IF runs = <<>>
    THEN <<>>
    ELSE IF Head(runs) = EndOfLine
         THEN <<cur>> \o LinesOf(Tail(runs), <<>>)
         ELSE LinesOf(Tail(runs), cur \o Head(runs)[1])

ShownLines(runs) == LinesOf(runs, <<>>)

\* the retained lines that pass the filter, in order
RECURSIVE FilterLines(_, _)
FilterLines(lines, filterText) ==
    IF lines = <<>>
    THEN <<>>
    ELSE (IF PassesFilter(Head(lines), filterText) THEN <<Head(lines)>> ELSE <<>>)
         \o FilterLines(Tail(lines), filterText)

\* how often x occurs in sequence s
Count(s, x) == Cardinality({ i \in 1..Len(s) : s[i] = x })

(***************************************************************************)
(* Render batches: the update_info dictionaries of the source.              *)
(***************************************************************************)
Batch(runs, app) == [highlighted_text_list |-> runs, append |-> app]

\* what process returns when a transition surfaces nothing
EmptyBatch == Batch(<<>>, TRUE)

(***************************************************************************)
(* log_handler["process"] (spec.md 4.1), on the handler state               *)
(* h = [lines, filterText, highlightText, paused].                          *)
(***************************************************************************)
process(h, line, filter_string, highlight_string, pause_string) ==
    LET f == IF filter_string # None THEN filter_string[1] ELSE h.filterText
        g == IF highlight_string # None THEN highlight_string[1] ELSE h.highlightText
        \* the button reads 'Unpause' while the view is paused
        p == IF pause_string # None THEN pause_string[1] = "Unpause" ELSE h.paused
        ls == IF line # <<>> THEN Append(h.lines, line) ELSE h.lines
        full == \/ filter_string # None
                \/ highlight_string # None
                \/ (pause_string # None /\ h.paused /\ ~p)
        one == IF line # <<>> /\ ~p THEN annotate(line, f, g) ELSE None
    IN [h |-> [lines |-> ls, filterText |-> f, highlightText |-> g, paused |-> p],
        update_info |->
            IF full THEN Batch(AnnotateAll(ls, f, g), FALSE)
            ELSE IF one # None THEN Batch(one[1], TRUE)
            ELSE EmptyBatch]

\* log_view.display_log_update (spec.md 6): extend on append, else replace
display_log_update(widget, update) ==
    IF update.append THEN widget \o update.highlighted_text_list
    ELSE update.highlighted_text_list

(***************************************************************************)
(* queue.Queue: put waits while a bounded queue is full (maxsize > 0), get  *)
(* takes the oldest entry.  An entry carries the arrival number of the      *)
(* event it is, or results from, next to the dictionary itself.             *)
(***************************************************************************)
\* queue.Queue() is built without a maxsize: 0, unbounded
input_queue_maxsize == 0
output_queue_maxsize == 0

\* a queue built with maxsize 1
QueueCanPutBounded(q, maxsize) == Len(q) < 1
\* put_nowait on a full queue of size 1, the Full error swallowed
QueuePutDropping(q, x) == IF Len(q) < 1 THEN Append(q, x) ELSE q
\* queue.LifoQueue: the newest entry first
QueueGetLifo(q) == [entry |-> q[Len(q)], rest |-> SubSeq(q, 1, Len(q) - 1)]

QueueCanPut(q, maxsize) == maxsize <= 0 \/ Len(q) < maxsize
QueuePut(q, x) == Append(q, x)
QueueGet(q) == [entry |-> Head(q), rest |-> Tail(q)]

Entry(n, d) == [no |-> n, item |-> d]

\* max_per_call of _process_display_output_queue
max_per_call == 20

(***************************************************************************)
(* Configuration file and MCU history (_load_config, _save_config,          *)
(* _update_mcu_history).  An MCU name is a number: 1..NumSupported are the  *)
(* names the RTT handler reports as supported, 0 is any other text in the   *)
(* -MCU- combo.  A JSON value is [type, value]; a Python dict is a function *)
(* from keys to values.                                                     *)
(***************************************************************************)
\* entries of supported_mcu_list
NumSupported == 12
supported_mcu_list == [i \in 1..NumSupported |-> i]
McuNames == 0..NumSupported
\* default_value of the -MCU- combo
DefaultMcu == 1
Interfaces == { "SWD", "JTAG" }

\* Python's "x in list"
InList(x, l) == \E i \in 1..Len(l) : l[i] = x
\* Python's l[:n]
Slice(l, n) == SubSeq(l, 1, IF Len(l) < n THEN Len(l) ELSE n)
\* Python's d.get(key, default)
Get(d, key, default) == IF key \in DOMAIN d THEN d[key] ELSE default

JsonDict(d) == [type |-> "dict", value |-> d]
JsonList(l) == [type |-> "list", value |-> l]
JsonNumber == [type |-> "number", value |-> 0]

\* what the file at _config_file_path can be
NoFile == [kind |-> "missing"]
UnreadableFile == [kind |-> "unreadable"]
InvalidJsonFile == [kind |-> "invalid"]
JsonFile(data) == [kind |-> "json", data |-> data]

\* the outcome of a call: a value, or an exception that left it
Returned(v) == [raised |-> FALSE, value |-> v]
Raised(e) == [raised |-> TRUE, error |-> e]

\* open(path, 'r') followed by json.load
ReadJson(file) ==
    IF file.kind \in { "missing", "unreadable" } THEN Raised("OSError")
    ELSE IF file.kind = "invalid" THEN Raised("JSONDecodeError")
    ELSE Returned(file.data)

DefaultConfig == [mcu_history |-> <<>>, last_interface |-> "SWD"]

\* _load_config returning an empty dict where the source returns the default
load_config_empty(file) ==
    LET r == ReadJson(file)
    IN IF r.raised THEN Returned([k \in {} |-> k])
       ELSE IF r.value.type = "dict" THEN Returned(r.value.value)
       ELSE Returned([k \in {} |-> k])

\* _load_config: any exception is swallowed, anything but an object falls
\* through to the default
load_config(file) ==
    LET r == ReadJson(file)
    IN IF r.raised THEN Returned(DefaultConfig)
       ELSE IF r.value.type = "dict" THEN Returned(r.value.value)
       ELSE Returned(DefaultConfig)

\* _save_config (the write is taken to succeed)
save_config(history, interface) ==
    JsonFile(JsonDict([mcu_history |-> history, last_interface |-> interface]))

\* the length _update_mcu_history cuts the history to
HistoryLimit == 10

\* _update_mcu_history without the cut to HistoryLimit entries
update_mcu_history_uncut(history, interface, file, mcu) ==
    IF InList(mcu, supported_mcu_list)
    THEN LET h == IF InList(mcu, history) THEN history ELSE <<mcu>> \o history
         IN [mcu_history |-> h, config_file |-> save_config(h, interface)]
    ELSE [mcu_history |-> history, config_file |-> file]

\* _update_mcu_history: the history and the config file it leaves
update_mcu_history(history, interface, file, mcu) ==
    IF InList(mcu, supported_mcu_list)
    THEN LET h == Slice(IF InList(mcu, history) THEN history ELSE <<mcu>> \o history,
                        HistoryLimit)
         IN [mcu_history |-> h, config_file |-> save_config(h, interface)]
    ELSE [mcu_history |-> history, config_file |-> file]

VARIABLES
    \* RTTViewer and its GUI
    log_processing_input_queue,   \* Ingestion Channel
    display_output_queue,         \* Output Channel
    pause_button_text,            \* text of the -PAUSE- button
    connected,                    \* status shown by _update_gui_status
    gui,                          \* "running", "closing" (run left its loop), "exited"
    log_widget,                   \* runs shown in the -LOG- widget (Renderer)
    \* the worker thread
    workerPc,                     \* "get", "put"
    log_input,                    \* the event dictionary being processed
    log_input_no,                 \* its arrival number
    update_info,                  \* the result of process
    \* the log handler (log_controller)
    handler,                      \* [lines, filterText, highlightText, paused]
    \* what has happened so far (observation only)
    source_lines,                 \* every line the Line Source enqueued, in order
    n_enqueued,                   \* events put on the Ingestion Channel
    n_ctl,                        \* of which by the GUI thread
    consumed_nos,                 \* arrival numbers in the order the worker got them
    emitted_nos,                  \* arrival numbers in the order results were put
    emitted_view,                 \* every emitted batch applied in order
    was_paused,                   \* handler.paused when the last process call began
    cleared,                      \* a Clear event has been handled
    torn_down,                    \* the session was torn down (Disconnect, window closed)
    tick,                         \* the last Drain Loop tick: display calls, update
    \* configuration and MCU selection
    config_file,                  \* what the file at _config_file_path holds
    mcu_history,                  \* self.mcu_history
    last_interface,               \* self.last_interface
    mcu_filter_string,            \* self.mcu_filter_string
    last_mcu                      \* the supported MCU of the latest Connect (observation)

vars == << log_processing_input_queue, display_output_queue, pause_button_text, connected, gui, log_widget,
           workerPc, log_input, log_input_no, update_info, handler,
           source_lines, n_enqueued, n_ctl, consumed_nos, emitted_nos,
           emitted_view, was_paused, cleared, torn_down, tick,
           config_file, mcu_history, last_interface, mcu_filter_string, last_mcu >>

guiVars == << pause_button_text,
              connected, gui >>
workerVars == << workerPc, log_input, log_input_no, update_info >>
workerObs == << consumed_nos, emitted_nos, emitted_view, was_paused >>
mcuVars == << config_file, mcu_history, last_interface, mcu_filter_string, last_mcu >>

NoInput == [line |-> <<>>]

NoTick == [calls |-> 0, update |-> None]

\* __init__ up to the layout: the configuration is loaded from file
Constructed(file) ==
    /\ config_file = file
    /\ mcu_history = Get(load_config(file).value, "mcu_history", <<>>)
    /\ last_interface = Get(load_config(file).value, "last_interface", "SWD")
    /\ mcu_filter_string = <<>>
    /\ last_mcu = None

\* the queues, the worker, the log handler and the window as __init__ leaves them
InitPipeline ==
    /\ log_processing_input_queue = <<>>
    /\ display_output_queue = <<>>
    /\ pause_button_text = "Pause"
    /\ connected = FALSE
    /\ gui = "running"
    /\ log_widget = <<>>
    /\ workerPc = "get"
    /\ log_input = NoInput
    /\ log_input_no = 0
    /\ update_info = EmptyBatch
    /\ handler = [lines |-> <<>>, filterText |-> <<>>, highlightText |-> <<>>,
                  paused |-> FALSE]
    /\ source_lines = <<>>
    /\ n_enqueued = 0
    /\ n_ctl = 0
    /\ consumed_nos = <<>>
    /\ emitted_nos = <<>>
    /\ emitted_view = <<>>
    /\ was_paused = FALSE
    /\ cleared = FALSE
    /\ torn_down = FALSE
    /\ tick = NoTick

\* a first start: there is no config file yet
Init == InitPipeline /\ Constructed(NoFile)

(***************************************************************************)
(* Line Source (libs/jlink RTT handler, spec.md 2 and 6): while connected   *)
(* it puts one {"line": text} event per line on the Ingestion Channel.      *)
(***************************************************************************)
LineSourcePut(l, max) ==
    /\ connected
    /\ gui # "exited"
    /\ Len(source_lines) < max
    /\ QueueCanPut(log_processing_input_queue, input_queue_maxsize)
    /\ log_processing_input_queue' =
           QueuePut(log_processing_input_queue, Entry(n_enqueued + 1, [line |-> l]))
    /\ n_enqueued' = n_enqueued + 1
    /\ source_lines' = Append(source_lines, l)
    /\ UNCHANGED << mcuVars, display_output_queue, guiVars, log_widget, workerVars, handler,
                    n_ctl, workerObs, cleared, torn_down, tick >>

LineSourceEmit(l) == LineSourcePut(l, MaxLines)

(***************************************************************************)
(* _log_processing_thread: one loop iteration is get, process, put.  The    *)
(* thread is a daemon: it runs until the process exits.                     *)
(***************************************************************************)
IsLineEvent(d) == "line" \in DOMAIN d

\* the dictionary-of-optional-fields parse of the source
ParseLine(d) == IF "line" \in DOMAIN d THEN d["line"] ELSE <<>>
ParseFilter(d) == IF "filter_string" \in DOMAIN d THEN Some(d["filter_string"]) ELSE None
ParseHighlight(d) ==
    IF "highlight_string" \in DOMAIN d THEN Some(d["highlight_string"]) ELSE None
\* the pause text looked up under a key no event carries
ParsePauseWrongKey(d) == IF "pause" \in DOMAIN d THEN Some(d["pause"]) ELSE None
ParsePause(d) == IF "pause_string" \in DOMAIN d THEN Some(d["pause_string"]) ELSE None

\* get, parse and process: the event leaves the queue and the handler takes it
WorkerGet ==
    /\ gui # "exited"
    /\ workerPc = "get"
    /\ log_processing_input_queue # <<>>
    /\ LET g == QueueGet(log_processing_input_queue)
           d == g.entry.item
           r == process(handler, ParseLine(d), ParseFilter(d), ParseHighlight(d),
                        ParsePause(d))
       IN /\ log_processing_input_queue' = g.rest
          /\ log_input' = d
          /\ log_input_no' = g.entry.no
          /\ consumed_nos' = Append(consumed_nos, g.entry.no)
          /\ handler' = r.h
          /\ update_info' = r.update_info
    /\ was_paused' = handler.paused
    /\ workerPc' = "put"
    /\ UNCHANGED << mcuVars, display_output_queue, guiVars, log_widget, source_lines,
                    n_enqueued, n_ctl, emitted_nos, emitted_view, cleared,
                    torn_down, tick >>

\* the worker keeping a result that shows nothing to itself
WorkerPutSkipEmpty ==
    /\ gui # "exited"
    /\ workerPc = "put"
    /\ QueueCanPut(display_output_queue, output_queue_maxsize)
    /\ display_output_queue' =
           IF update_info = EmptyBatch THEN display_output_queue
           ELSE QueuePut(display_output_queue, Entry(log_input_no, update_info))
    /\ LET q == display_output_queue'
       IN IF Len(q) > Len(display_output_queue)
          THEN /\ emitted_nos' = Append(emitted_nos, q[Len(q)].no)
               /\ emitted_view' = display_log_update(emitted_view, q[Len(q)].item)
          ELSE UNCHANGED << emitted_nos, emitted_view >>
    /\ workerPc' = "get"
    /\ log_input' = NoInput
    /\ update_info' = EmptyBatch
    /\ was_paused' = FALSE
    /\ UNCHANGED << mcuVars, log_processing_input_queue, guiVars, log_widget,
                    log_input_no, handler, source_lines, n_enqueued, n_ctl,
                    consumed_nos, cleared, torn_down, tick >>

\* put the result on the Output Channel
WorkerPut ==
    /\ gui # "exited"
    /\ workerPc = "put"
    /\ QueueCanPut(display_output_queue, output_queue_maxsize)
    /\ display_output_queue' =
           QueuePut(display_output_queue, Entry(log_input_no, update_info))
    \* the observers record the entry the queue has taken
    /\ LET q == display_output_queue'
       IN IF Len(q) > Len(display_output_queue)
          THEN /\ emitted_nos' = Append(emitted_nos, q[Len(q)].no)
               /\ emitted_view' = display_log_update(emitted_view, q[Len(q)].item)
          ELSE UNCHANGED << emitted_nos, emitted_view >>
    /\ workerPc' = "get"
    \* the locals are dead until the next get assigns them
    /\ log_input' = NoInput
    /\ update_info' = EmptyBatch
    /\ was_paused' = FALSE
    /\ UNCHANGED << mcuVars, log_processing_input_queue, guiVars, log_widget, log_input_no,
                    handler, source_lines, n_enqueued, n_ctl, consumed_nos, cleared,
                    torn_down, tick >>

(***************************************************************************)
(* The GUI thread: RTTViewer.run reads one window event per loop iteration, *)
(* handles it, puts the input update that results on the Ingestion Channel  *)
(* and, when the update interval has elapsed, runs one Drain Loop tick.     *)
(***************************************************************************)
\* the GUI thread puts dictionary d on the Ingestion Channel
PutControlUpTo(d, max) ==
    /\ n_ctl < max
    /\ QueueCanPut(log_processing_input_queue, input_queue_maxsize)
    /\ log_processing_input_queue' =
           QueuePut(log_processing_input_queue, Entry(n_enqueued + 1, d))
    /\ n_enqueued' = n_enqueued + 1
    /\ n_ctl' = n_ctl + 1

PutControl(d) == PutControlUpTo(d, MaxCtl)

\* -FILTER-: the new text reaches the worker as {"filter_string": text}
GuiFilter(t) ==
    /\ gui = "running"
    /\ PutControl([filter_string |-> t])
    /\ UNCHANGED << mcuVars, display_output_queue, pause_button_text,
                    connected, gui, log_widget, workerVars, handler, source_lines,
                    workerObs, cleared, torn_down, tick >>

\* -HIGHLIGHT-: the new text reaches the worker as {"highlight_string": text}
GuiHighlight(t) ==
    /\ gui = "running"
    /\ PutControl([highlight_string |-> t])
    /\ UNCHANGED << mcuVars, display_output_queue, pause_button_text,
                    connected, gui, log_widget, workerVars, handler, source_lines,
                    workerObs, cleared, torn_down, tick >>

\* -PAUSE-: toggle the button text and enqueue it
\* a button that shows 'Unpause' whatever it showed
NewPauseTextStuck(current_text) == "Unpause"

NewPauseText(current_text) == IF current_text = "Pause" THEN "Unpause" ELSE "Pause"

GuiPauseUpTo(max) ==
    /\ gui = "running"
    /\ pause_button_text' = NewPauseText(pause_button_text)
    /\ PutControlUpTo([pause_string |-> NewPauseText(pause_button_text)], max)
    /\ UNCHANGED << mcuVars, display_output_queue, connected, gui, log_widget, workerVars,
                    handler, source_lines, workerObs, cleared,
                    torn_down, tick >>

GuiPause == GuiPauseUpTo(MaxCtl)

\* the text typed into the -MCU- combo
McuFilterTexts == { <<"S">> }

\* log_view.handle_widget_highlighting when the MCU filter text has changed:
\* the input update carries it under "mcu_string"
handle_widget_highlighting(mcu_string) == [mcu_string |-> mcu_string]

\* -MCU-KEYRELEASE-: the typed text becomes the MCU filter, and the input
\* update that follows from it goes on the Ingestion Channel like any other
GuiMcuKeyRelease(t) ==
    /\ gui = "running"
    /\ mcu_filter_string' = t
    /\ PutControl(handle_widget_highlighting(t))
    /\ UNCHANGED << config_file, mcu_history, last_interface, last_mcu,
                    display_output_queue, guiVars, log_widget, workerVars, handler,
                    source_lines, workerObs, cleared, torn_down, tick >>

\* -CLEAR-: the GUI thread clears the log handler's lines and the widget itself
GuiClear ==
    /\ gui = "running"
    /\ handler' = [handler EXCEPT !.lines = <<>>]
    /\ log_widget' = <<>>
    /\ cleared' = TRUE
    /\ UNCHANGED << mcuVars, log_processing_input_queue, display_output_queue, guiVars,
                    workerVars, source_lines, n_enqueued, n_ctl, workerObs,
                    torn_down, tick >>

\* -CONNECT- (the button is enabled while disconnected): the MCU and the
\* interface are read from their combos, ok is connect's result
GuiConnect(selected_mcu, selected_interface, ok) ==
    /\ gui = "running"
    /\ ~connected
    /\ LET u == update_mcu_history(mcu_history, last_interface, config_file,
                                   selected_mcu)
       IN /\ mcu_history' = u.mcu_history
          /\ last_interface' = selected_interface
          /\ config_file' = save_config(u.mcu_history, selected_interface)
    /\ last_mcu' = IF InList(selected_mcu, supported_mcu_list)
                   THEN Some(selected_mcu) ELSE last_mcu
    /\ connected' = ok
    /\ torn_down' = (torn_down /\ ~ok)
    /\ UNCHANGED << log_processing_input_queue, display_output_queue,
                    pause_button_text, mcu_filter_string,
                    gui, log_widget, workerVars, handler, source_lines, n_enqueued,
                    n_ctl, workerObs, cleared, tick >>

\* -DISCONNECT- (the button is enabled while connected)
GuiDisconnect ==
    /\ gui = "running"
    /\ connected
    /\ connected' = FALSE
    /\ torn_down' = TRUE
    /\ UNCHANGED << mcuVars, log_processing_input_queue, display_output_queue,
                    pause_button_text,
                    gui, log_widget, workerVars, handler, source_lines, n_enqueued,
                    n_ctl, workerObs, cleared, tick >>

\* WIN_CLOSED: run leaves its loop, disconnects and closes the window
GuiClose ==
    /\ gui = "running"
    /\ gui' = "closing"
    /\ connected' = FALSE
    /\ torn_down' = TRUE
    /\ UNCHANGED << mcuVars, log_processing_input_queue, display_output_queue,
                    pause_button_text,
                    log_widget, workerVars, handler, source_lines, n_enqueued,
                    n_ctl, workerObs, cleared, tick >>

\* run has returned: the interpreter exits and the daemon worker thread with it
ProcessExit ==
    /\ gui = "closing"
    /\ gui' = "exited"
    /\ UNCHANGED << mcuVars, log_processing_input_queue, display_output_queue,
                    pause_button_text,
                    connected, log_widget, workerVars, handler, source_lines,
                    n_enqueued, n_ctl, workerObs, cleared,
                    torn_down, tick >>

(***************************************************************************)
(* _process_display_output_queue: the Drain Loop tick.                      *)
(***************************************************************************)
\* the loop without its break on append == False
RECURSIVE DrainLoopNoBreak(_)
DrainLoopNoBreak(d) ==
    IF d.queue # <<>> /\ d.count < max_per_call
    THEN LET g == QueueGet(d.queue)
             u == g.entry.item
         IN DrainLoopNoBreak(
                [queue |-> g.rest,
                 count |-> d.count + 1,
                 highlighted_log_lines |->
                     d.highlighted_log_lines \o u.highlighted_text_list,
                 update_info |-> Some(u),
                 popped |-> Append(d.popped, g.entry)])
    ELSE d

\* the loop throwing away what is queued behind an append == False batch
RECURSIVE DrainLoopDiscarding(_)
DrainLoopDiscarding(d) ==
    IF d.queue # <<>> /\ d.count < max_per_call
    THEN LET g == QueueGet(d.queue)
             u == g.entry.item
             n == [queue |-> g.rest,
                   count |-> d.count + 1,
                   highlighted_log_lines |->
                       d.highlighted_log_lines \o u.highlighted_text_list,
                   update_info |-> Some(u),
                   popped |-> Append(d.popped, g.entry)]
         IN IF u.append = FALSE THEN [n EXCEPT !.queue = <<>>]
            ELSE DrainLoopDiscarding(n)
    ELSE d

\* the while loop: d = [queue, count, highlighted_log_lines, update_info, popped]
RECURSIVE DrainLoop(_)
DrainLoop(d) ==
    IF d.queue # <<>> /\ d.count < max_per_call
    THEN LET g == QueueGet(d.queue)
             u == g.entry.item
             n == [queue |-> g.rest,
                   count |-> d.count + 1,
                   highlighted_log_lines |->
                       d.highlighted_log_lines \o u.highlighted_text_list,
                   update_info |-> Some(u),
                   popped |-> Append(d.popped, g.entry)]
         IN IF u.append = FALSE THEN n ELSE DrainLoop(n)
    ELSE d

\* the periodic refresh the source has commented out: a full update when idle
DrainUpdateForced(d) ==
    IF d.update_info # None
    THEN Some([d.update_info[1] EXCEPT
                   !.highlighted_text_list = d.highlighted_log_lines])
    ELSE Some(Batch(<<>>, FALSE))

\* the last popped batch handed over as it is, without what was accumulated
DrainUpdateLast(d) == d.update_info

\* the combined update handed to the Renderer, None when nothing was popped
DrainUpdate(d) ==
    IF d.update_info # None
    THEN Some([d.update_info[1] EXCEPT
                   !.highlighted_text_list = d.highlighted_log_lines])
    ELSE None

\* display_log_update calls of one tick: the one call site follows the loop
DrainCalls(u) == IF u # None THEN 1 ELSE 0

DrainTick ==
    /\ gui = "running"
    /\ LET d == DrainLoop([queue |-> display_output_queue, count |-> 0,
                           highlighted_log_lines |-> <<>>, update_info |-> None,
                           popped |-> <<>>])
           u == DrainUpdate(d)
           w == IF u # None THEN display_log_update(log_widget, u[1]) ELSE log_widget
       IN /\ display_output_queue' = d.queue
          /\ log_widget' = w
          /\ tick' = [calls |-> DrainCalls(u), update |-> u]
    /\ UNCHANGED << mcuVars, log_processing_input_queue, guiVars, workerVars, handler,
                    source_lines, n_enqueued, n_ctl, workerObs, cleared, torn_down >>

(***************************************************************************)
(* Spec is the pipeline while the program runs: the Line Source, the worker *)
(* thread and the GUI loop with its control events, Clear and the Drain     *)
(* Loop.  SpecSession adds what ends a session: Disconnect, closing the     *)
(* window and the exit of the process.  Those three actions change only     *)
(* connected, gui and torn_down, so every state of the queues, the worker,  *)
(* the handler and the widget that SpecSession reaches, Spec reaches too.   *)
(***************************************************************************)
Next ==
    \/ \E l \in Lines : LineSourceEmit(l)
    \/ WorkerGet
    \/ WorkerPut
    \/ \E t \in FilterTexts : GuiFilter(t)
    \/ \E t \in HighlightTexts : GuiHighlight(t)
    \/ GuiPause
    \/ GuiClear
    \/ \E ok \in BOOLEAN : GuiConnect(DefaultMcu, "SWD", ok)
    \/ DrainTick

Spec == Init /\ [][Next]_vars

NextSession ==
    \/ Next
    \/ GuiDisconnect
    \/ GuiClose
    \/ ProcessExit

SpecSession == Init /\ [][NextSession]_vars

(***************************************************************************)
(* SpecPause: the event sequence of the pause test (spec.md 8): the view is *)
(* paused, the Line Source delivers lines, the view is unpaused; the filter *)
(* stays empty.  The worker and the Drain Loop run as they like.            *)
(***************************************************************************)
\* lines the Line Source delivers while the view is paused
MaxPausedLines == 2

PauseScenarioToggle ==
    /\ connected
    /\ (n_ctl = 0 /\ source_lines = <<>>) \/ n_ctl = 1
    /\ GuiPause

PauseScenarioLine(l) ==
    /\ n_ctl = 1
    /\ pause_button_text = "Unpause"
    /\ LineSourcePut(l, MaxPausedLines)

NextPause ==
    \/ GuiConnect(DefaultMcu, "SWD", TRUE)
    \/ PauseScenarioToggle
    \/ \E l \in Lines : PauseScenarioLine(l)
    \/ WorkerGet
    \/ WorkerPut
    \/ DrainTick

SpecPause == Init /\ [][NextPause]_vars

\* both toggles are enqueued and the worker has processed every event
PauseScenarioDone ==
    /\ n_ctl = 2
    /\ log_processing_input_queue = <<>>
    /\ workerPc = "get"

(***************************************************************************)
(* SpecFilter: the event sequence of the filter test (spec.md 8): the only  *)
(* control events are filter changes, typed one after another; the user     *)
(* presses Clear once the filter changes are enqueued and changes the       *)
(* filter no more after it.  The Line Source, the worker and the Drain Loop *)
(* run as they like.                                                        *)
(***************************************************************************)
\* the texts typed into the filter input in this scenario
FilterScenarioTexts == { <<"B">>, <<"a">> }

FilterScenarioChange(t) ==
    /\ ~cleared
    /\ GuiFilter(t)

FilterScenarioClear ==
    /\ n_ctl >= 2
    /\ ~cleared
    /\ GuiClear

NextFilter ==
    \/ GuiConnect(DefaultMcu, "SWD", TRUE)
    \/ \E l \in Lines : LineSourceEmit(l)
    \/ \E t \in FilterScenarioTexts : FilterScenarioChange(t)
    \/ FilterScenarioClear
    \/ WorkerGet
    \/ WorkerPut
    \/ DrainTick

SpecFilter == Init /\ [][NextFilter]_vars

(***************************************************************************)
(* SpecInput: the pipeline with every input of the window that ends up on   *)
(* the Ingestion Channel: the filter, the highlight, the pause button and   *)
(* the text typed into the -MCU- combo.                                     *)
(***************************************************************************)
NextInput ==
    \/ GuiConnect(DefaultMcu, "SWD", TRUE)
    \/ \E l \in Lines : LineSourceEmit(l)
    \/ \E t \in FilterTexts : GuiFilter(t)
    \/ \E t \in HighlightTexts : GuiHighlight(t)
    \/ GuiPause
    \/ \E t \in McuFilterTexts : GuiMcuKeyRelease(t)
    \/ WorkerGet
    \/ WorkerPut
    \/ DrainTick

SpecInput == Init /\ [][NextInput]_vars

(***************************************************************************)
(* SpecMcu: the configuration across runs of the program.  The program      *)
(* starts with any of ConfigFiles at _config_file_path, the user connects   *)
(* and disconnects with MCU names from ConnectMcus, closes the window, and  *)
(* the program is started again and loads what the last run saved.  The     *)
(* Line Source stays silent.                                                *)
(***************************************************************************)
\* entries of the longest MCU history found in a config file
MaxLoaded == 11

\* histories without duplicates
LoadedHistories == { [i \in 1..n |-> i] : n \in 0..MaxLoaded }

ConfigFiles ==
    { NoFile, UnreadableFile, InvalidJsonFile, JsonFile(JsonNumber),
      JsonFile(JsonDict([last_interface |-> "JTAG"])) }
    \cup { JsonFile(JsonList(h)) : h \in LoadedHistories }
    \cup { JsonFile(JsonDict([mcu_history |-> h, last_interface |-> i])) :
               h \in LoadedHistories, i \in Interfaces }

\* the names in the -MCU- combo when Connect is pressed: one that is not
\* supported, two from the head and two from the tail of supported_mcu_list
ConnectMcus == { 0, 1, 2, NumSupported - 1, NumSupported }

InitMcu == InitPipeline /\ \E f \in ConfigFiles : Constructed(f)

\* the program is started again: __init__ with the config file as it is
Restart ==
    /\ gui = "exited"
    /\ log_processing_input_queue' = <<>>
    /\ display_output_queue' = <<>>
    /\ pause_button_text' = "Pause"
    /\ connected' = FALSE
    /\ gui' = "running"
    /\ log_widget' = <<>>
    /\ workerPc' = "get"
    /\ log_input' = NoInput
    /\ log_input_no' = 0
    /\ update_info' = EmptyBatch
    /\ handler' = [lines |-> <<>>, filterText |-> <<>>, highlightText |-> <<>>,
                   paused |-> FALSE]
    /\ source_lines' = <<>>
    /\ n_enqueued' = 0
    /\ n_ctl' = 0
    /\ consumed_nos' = <<>>
    /\ emitted_nos' = <<>>
    /\ emitted_view' = <<>>
    /\ was_paused' = FALSE
    /\ cleared' = FALSE
    /\ torn_down' = FALSE
    /\ tick' = NoTick
    /\ config_file' = config_file
    /\ mcu_history' = Get(load_config(config_file).value, "mcu_history", <<>>)
    /\ last_interface' = Get(load_config(config_file).value, "last_interface", "SWD")
    /\ mcu_filter_string' = <<>>
    /\ last_mcu' = None

NextMcu ==
    \/ \E m \in ConnectMcus : \E i \in Interfaces : \E ok \in BOOLEAN :
           GuiConnect(m, i, ok)
    \/ GuiDisconnect
    \/ GuiClose
    \/ ProcessExit
    \/ Restart

SpecMcu == InitMcu /\ [][NextMcu]_vars

(***************************************************************************)
(* SpecToggle: the pause button pressed again and again, the only control   *)
(* event, while the Line Source, the worker and the Drain Loop run.         *)
(***************************************************************************)
\* presses of the pause button in one run
MaxPresses == 4

NextToggle ==
    \/ GuiConnect(DefaultMcu, "SWD", TRUE)
    \/ \E l \in Lines : LineSourceEmit(l)
    \/ GuiPauseUpTo(MaxPresses)
    \/ WorkerGet
    \/ WorkerPut
    \/ DrainTick

SpecToggle == Init /\ [][NextToggle]_vars

(***************************************************************************)
(* SpecClear: lines arrive, the user presses Clear once, and no line        *)
(* arrives after it, so that every line of the run was enqueued before the  *)
(* Clear.  The worker and the Drain Loop run as they like, before and       *)
(* after the Clear.                                                         *)
(***************************************************************************)
\* lines the Line Source delivers before the Clear
MaxBeforeClear == 2

ClearScenarioEmit(l) ==
    /\ ~cleared
    /\ LineSourcePut(l, MaxBeforeClear)

ClearScenarioClear ==
    /\ ~cleared
    /\ GuiClear

NextClear ==
    \/ GuiConnect(DefaultMcu, "SWD", TRUE)
    \/ \E l \in Lines : ClearScenarioEmit(l)
    \/ ClearScenarioClear
    \/ WorkerGet
    \/ WorkerPut
    \/ DrainTick

SpecClear == Init /\ [][NextClear]_vars

(***************************************************************************)
(* SpecDrain: the Drain Loop on an Output Channel that has filled up, long  *)
(* enough for max_per_call to matter.  It starts in the state the program   *)
(* is in after Connect when the worker has processed n events and no tick   *)
(* has run yet: n lines, or n - 1 lines and a highlight change as event k.  *)
(***************************************************************************)
\* events processed before the first tick
MaxQueued == 22

QueuedEvent(i, k) ==
    IF i = k THEN [highlight_string |-> <<"a">>]
    ELSE [line |-> IF i % 2 = 1 THEN <<"a">> ELSE <<"A", "b">>]

\* the lines among the first m events
QueuedLines(m, k) ==
    LET skip == k >= 1 /\ k <= m
    IN [j \in 1..(IF skip THEN m - 1 ELSE m) |->
            QueuedEvent(IF skip /\ j >= k THEN j + 1 ELSE j, k)["line"]]

\* the handler once the worker has processed the first m events
HandlerAfter(m, k) ==
    [lines |-> QueuedLines(m, k),
     filterText |-> <<>>,
     highlightText |-> IF k >= 1 /\ k <= m THEN <<"a">> ELSE <<>>,
     paused |-> FALSE]

\* the worker's process call for event i
Processed(i, k) ==
    LET d == QueuedEvent(i, k)
    IN process(HandlerAfter(i - 1, k), ParseLine(d), ParseFilter(d),
               ParseHighlight(d), ParsePause(d))

\* two batches applied one after the other, as one batch
Merge(b1, b2) ==
    IF b2.append
    THEN Batch(b1.highlighted_text_list \o b2.highlighted_text_list, b1.append)
    ELSE b2

\* the batches lo..hi of queue q as one batch
RECURSIVE Merged(_, _, _)
Merged(q, lo, hi) ==
    IF lo > hi THEN EmptyBatch
    ELSE IF lo = hi THEN q[lo].item
    ELSE LET mid == (lo + hi) \div 2
         IN Merge(Merged(q, lo, mid), Merged(q, mid + 1, hi))

\* the view once every batch of queue q was applied in order
ViewOf(q) == display_log_update(<<>>, Merged(q, 1, Len(q)))

InitDrain ==
    \E n \in 0..MaxQueued : \E k \in 0..n :
        LET q == [i \in 1..n |-> Entry(i, Processed(i, k).update_info)]
        IN \* each process call leaves the handler the next one starts from
           /\ \A i \in 1..n : Processed(i, k).h = HandlerAfter(i, k)
           /\ display_output_queue = q
           /\ emitted_view = ViewOf(q)
           /\ log_processing_input_queue = <<>>
           /\ pause_button_text = "Pause"
           /\ connected = TRUE
           /\ gui = "running"
           /\ log_widget = <<>>
           /\ workerPc = "get"
           /\ log_input = NoInput
           /\ log_input_no = n
           /\ update_info = EmptyBatch
           /\ handler = HandlerAfter(n, k)
           /\ source_lines = QueuedLines(n, k)
           /\ n_enqueued = n
           /\ n_ctl = IF k = 0 THEN 0 ELSE 1
           /\ consumed_nos = [i \in 1..n |-> i]
           /\ emitted_nos = [i \in 1..n |-> i]
           /\ was_paused = FALSE
           /\ cleared = FALSE
           /\ torn_down = FALSE
           /\ tick = NoTick
           /\ config_file = save_config(<<DefaultMcu>>, "SWD")
           /\ mcu_history = <<DefaultMcu>>
           /\ last_interface = "SWD"
           /\ mcu_filter_string = <<>>
           /\ last_mcu = Some(DefaultMcu)

NextDrain == DrainTick

SpecDrain == InitDrain /\ [][NextDrain]_vars

\* a tick would change something: ENABLED <<DrainTick>>_vars, written out
TickEnabled == gui = "running" /\ (display_output_queue # <<>> \/ tick # NoTick)

\* the GUI loop keeps running: window.read returns after 100 ms at the latest
\* and the update interval elapses, so a tick that can pop something comes.
\* This is weak fairness of DrainTick, with its enabling condition written out.
SpecDrainLive ==
    SpecDrain /\ ([]<>(~TickEnabled) \/ []<><<DrainTick>>_vars)

(***************************************************************************)
(* Properties.                                                              *)
(***************************************************************************)
IsNewLine(d) == IsLineEvent(d) /\ d["line"] # <<>>
IsPauseEvent(d, text) == "pause_string" \in DOMAIN d /\ d["pause_string"] = text

\* position of the first append == False batch of queue q, 0 when there is none
FirstFull(q) ==
    IF \E i \in 1..Len(q) : ~q[i].item.append
    THEN CHOOSE i \in 1..Len(q) :
             /\ ~q[i].item.append
             /\ \A j \in 1..(i - 1) : q[j].item.append
    ELSE 0

\* C1: when a tick pops an append=false batch after one or more append=true
\* batches, the update handed to the Renderer is exactly that append=false
\* batch: nothing accumulated earlier in the tick is part of it.
C1_FullRefreshSupersedes ==
    [][DrainTick =>
          LET k == FirstFull(display_output_queue)
          IN (k >= 2 /\ k <= max_per_call) =>
                 tick'.update = Some(display_output_queue[k].item)]_vars

\* C3: the Renderer never shows a line more often than the Line Source
\* delivered it.
C3_NoLineShownTwice ==
    \A l \in Lines : Count(ShownLines(log_widget), l) <= Count(source_lines, l)

\* C5: a tick makes at most one display call, and none when the Output
\* Channel is empty: then the Renderer's content is unchanged.
C5_AtMostOneDisplayCall ==
    [][DrainTick =>
          /\ tick'.calls <= 1
          /\ display_output_queue = <<>> =>
                 (tick'.calls = 0 /\ log_widget' = log_widget)]_vars

\* a tick found the Output Channel empty while the Renderer showed something
C5_Witness ==
    /\ tick.calls = 0
    /\ log_widget # <<>>
    /\ display_output_queue = <<>>

\* C6: the worker gets the events in the order they were enqueued, one at a
\* time, and the results enter the Output Channel in that same order.
C6_FifoOrder ==
    /\ consumed_nos = [i \in 1..Len(consumed_nos) |-> i]
    /\ emitted_nos = [i \in 1..Len(emitted_nos) |-> i]
    /\ Len(emitted_nos) = Len(consumed_nos) - (IF workerPc = "put" THEN 1 ELSE 0)
    /\ \A i \in 1..Len(log_processing_input_queue) :
           log_processing_input_queue[i].no = Len(consumed_nos) + i
    /\ \A i, j \in 1..Len(display_output_queue) :
           i < j => display_output_queue[i].no < display_output_queue[j].no

\* three events of both producers have gone through the worker in order
C6_Witness ==
    /\ Len(emitted_nos) >= 3
    /\ source_lines # <<>>
    /\ Len(display_output_queue) >= 2

\* C7: the log handler's state changes only in the worker's process call.
C7_OnlyWorkerTouchesHandler ==
    [][handler' # handler => (workerPc = "get" /\ workerPc' = "put")]_vars

\* C9: while the Line Source has a line to deliver it can always put it,
\* whatever the queues hold and wherever the worker and the Drain Loop are.
C9_LineSourceNeverBlocks ==
    (connected /\ gui # "exited" /\ Len(source_lines) < MaxLines)
        => ENABLED (\E l \in Lines : LineSourceEmit(l))

\* the Line Source can put although an event waits in the queue, the worker
\* is in the middle of another and no Drain Loop tick has delivered anything
C9_Witness ==
    /\ connected
    /\ Len(source_lines) < MaxLines
    /\ Len(log_processing_input_queue) >= 1
    /\ workerPc = "put"
    /\ tick = NoTick
    /\ ENABLED (\E l \in Lines : LineSourceEmit(l))

C4_DrainPopsBoundedPrefix ==
    [][DrainTick =>
          \E k \in 0..Len(display_output_queue) :
              /\ k <= max_per_call
              /\ display_output_queue' =
                     SubSeq(display_output_queue, k + 1, Len(display_output_queue))
              /\ \A i \in 1..(k - 1) : display_output_queue[i].item.append
              /\ \/ k = max_per_call
                 \/ k = Len(display_output_queue)
                 \/ (k >= 1 /\ ~display_output_queue[k].item.append)]_vars

\* a tick stopped at the cap: it handed over an append update and left batches
C4_Witness ==
    /\ tick.calls = 1
    /\ tick.update[1].append
    /\ display_output_queue # <<>>
    /\ Len(emitted_nos) - Len(display_output_queue) = max_per_call

\* C8: once the session is torn down the worker takes no further event from
\* the Ingestion Channel (stated for the Disconnect event, after which the
\* program keeps running).
C8_TeardownStopsWorker ==
    [][(torn_down /\ gui = "running") =>
          Len(log_processing_input_queue') >= Len(log_processing_input_queue)]_vars

\* C11: when the worker takes a FilterChanged event that directly follows a
\* FilterChanged event with the same text, whose batch is still the newest on
\* the Output Channel, then both batches have append=false and the same
\* segments, and the handler state after the second event is what it was
\* before it.  (Under SpecFilter every append=false batch stems from a filter
\* change, and the filter text in effect is that of the latest one.)
C11_SameFilterTwice ==
    [][(/\ WorkerGet
        /\ display_output_queue # <<>>
        /\ LET e == Head(log_processing_input_queue)
               b == display_output_queue[Len(display_output_queue)]
           IN /\ "filter_string" \in DOMAIN e.item
              /\ e.item["filter_string"] = handler.filterText
              /\ b.no + 1 = e.no
              /\ ~b.item.append)
       => (/\ ~update_info'.append
           /\ update_info'.highlighted_text_list =
                  display_output_queue[Len(display_output_queue)]
                      .item.highlighted_text_list
           /\ handler' = handler)]_vars

\* the payload fields of an event
PayloadKeys == { "line", "filter_string", "highlight_string", "pause_string" }

\* C12: every event on the Ingestion Channel, and the one the worker is
\* processing, carries exactly one of the four payload fields.
C12_ExactlyOnePayload ==
    /\ \A i \in 1..Len(log_processing_input_queue) :
           Cardinality(DOMAIN log_processing_input_queue[i].item \cap PayloadKeys) = 1
    /\ Cardinality(DOMAIN log_input \cap PayloadKeys) = 1

\* C13: while the config file holds the old format, a JSON list of MCU names
\* (the program has loaded it and not saved since), mcu_history is that list
\* and last_interface is 'SWD'.
C13_OldFormatLoaded ==
    (config_file.kind = "json" /\ config_file.data.type = "list") =>
        (mcu_history = config_file.data.value /\ last_interface = "SWD")

\* C14: _load_config of whatever the config file holds raises nothing; it
\* returns the default configuration when the file is missing, unreadable or
\* not valid JSON, and the object itself when the file holds a JSON object.
C14_LoadNeverFails ==
    LET r == load_config(config_file)
    IN /\ ~r.raised
       /\ config_file.kind \in { "missing", "unreadable", "invalid" } =>
              r.value = [mcu_history |-> <<>>, last_interface |-> "SWD"]
       /\ (config_file.kind = "json" /\ config_file.data.type = "dict") =>
              r.value = config_file.data.value

\* the program has started on a file that is not valid JSON, with the defaults
C14_Witness ==
    /\ config_file = InvalidJsonFile
    /\ gui = "running"
    /\ mcu_history = <<>>
    /\ last_interface = "SWD"

\* C17: once a Connect has named a supported MCU, the first entry of
\* mcu_history is the supported MCU of the latest Connect.
C17_LatestMcuFirst ==
    last_mcu # None => (mcu_history # <<>> /\ mcu_history[1] = last_mcu[1])

NoDuplicates(l) == \A i, j \in 1..Len(l) : i # j => l[i] # l[j]

\* what a Connect does to the history: one _update_mcu_history call
UpdateCall == \E m \in ConnectMcus : \E i \in Interfaces : \E ok \in BOOLEAN :
                  GuiConnect(m, i, ok)

\* C20 as stated: after any _update_mcu_history call the history has at most
\* 10 entries and no duplicates.
C20_AtMostTenAfterAnyCall ==
    [][UpdateCall =>
          (Len(mcu_history') <= HistoryLimit /\ NoDuplicates(mcu_history'))]_vars

\* C20 amended: the history has no duplicates, and at most 10 entries once a
\* call has named a supported MCU; a call adds at most the MCU it names, at
\* the front, and only if that MCU is supported and not in the history; a call
\* with an unsupported MCU leaves the history and the config file as they are.
C20_HistoryInvariant ==
    /\ NoDuplicates(mcu_history)
    /\ last_mcu # None => Len(mcu_history) <= HistoryLimit
    /\ \A m \in McuNames :
           LET u == update_mcu_history(mcu_history, last_interface, config_file, m)
               added == { k \in 1..Len(u.mcu_history) :
                              ~InList(u.mcu_history[k], mcu_history) }
           IN /\ NoDuplicates(u.mcu_history)
              /\ Len(u.mcu_history) <= Len(mcu_history) + 1
              /\ InList(m, supported_mcu_list) => Len(u.mcu_history) <= HistoryLimit
              /\ added \subseteq { 1 }
              /\ added # {} => (/\ u.mcu_history[1] = m
                                /\ InList(m, supported_mcu_list)
                                /\ ~InList(m, mcu_history))
              /\ ~InList(m, supported_mcu_list) =>
                     (u.mcu_history = mcu_history /\ u.config_file = config_file)

\* a new MCU went to the front of a full history, whose last entry was cut
C20_Witness ==
    /\ last_mcu = Some(NumSupported)
    /\ Len(mcu_history) = HistoryLimit
    /\ mcu_history[1] = NumSupported
    /\ mcu_history[HistoryLimit] = HistoryLimit - 1

\* the segments of the batches lo..hi of queue q, in queue order
RECURSIVE SegmentsOf(_, _, _)
SegmentsOf(q, lo, hi) ==
    IF lo > hi THEN <<>>
    ELSE IF lo = hi THEN q[lo].item.highlighted_text_list
    ELSE LET mid == (lo + hi) \div 2
         IN SegmentsOf(q, lo, mid) \o SegmentsOf(q, mid + 1, hi)

\* batches a step takes off the Output Channel
Popped == Len(display_output_queue) - Len(display_output_queue')

\* C15: when every batch a tick pops has append=true, the update handed to
\* the Renderer has append=true and its segments are those of the popped
\* batches, concatenated in queue order.
C15_AppendOnlyConcatenates ==
    [][(/\ DrainTick
        /\ Popped >= 1
        /\ \A i \in 1..Popped : display_output_queue[i].item.append)
       => tick'.update =
              Some(Batch(SegmentsOf(display_output_queue, 1, Popped), TRUE))]_vars

\* a tick has emptied the Output Channel into one append update of three lines
\* or more
C15_Witness ==
    /\ tick.calls = 1
    /\ tick.update[1].append
    /\ Len(tick.update[1].highlighted_text_list) >= 6
    /\ display_output_queue = <<>>

\* arrival number n is on the Output Channel
Queued(n) == \E i \in 1..Len(display_output_queue) : display_output_queue[i].no = n

\* C16: a tick pops a prefix of the Output Channel, at least one batch unless
\* the channel is empty, and the update it hands to the Renderer holds the
\* segments of every popped batch once, in queue order; a batch that has left
\* the channel does not return; and, ticks occurring, the batch placed last
\* eventually leaves the channel, and with it (a prefix is popped) every batch.
C16_NoBatchLost ==
    /\ [][DrainTick =>
             /\ Popped >= 0
             /\ display_output_queue # <<>> => Popped >= 1
             /\ display_output_queue' =
                    SubSeq(display_output_queue, Popped + 1, Len(display_output_queue))
             /\ Popped >= 1 =>
                    (/\ tick'.calls = 1
                     /\ tick'.update[1].highlighted_text_list =
                            SegmentsOf(display_output_queue, 1, Popped))]_vars
    /\ [][\A n \in 1..Len(emitted_nos) :
              (~Queued(n) /\ Len(emitted_nos') = Len(emitted_nos)) => ~Queued(n)']_vars
    /\ Queued(Len(emitted_nos)) ~> ~Queued(Len(emitted_nos))

\* a batch that was queued beyond the cap of one tick, behind an append=false
\* batch, has been popped by a later tick
C16_Witness ==
    /\ Len(emitted_nos) > max_per_call
    /\ display_output_queue = <<>>
    /\ tick.calls = 1
    /\ ~tick.update[1].append
    /\ log_widget # <<>>

\* C18: every event ever enqueued is waiting on the Ingestion Channel, is the
\* one the worker is processing, or has had exactly one item put on the
\* Output Channel for it: the items put are those of the events consumed so
\* far, one each, the event in progress excepted.
C18_OneItemPerEvent ==
    /\ n_enqueued = Len(log_processing_input_queue)
                    + (IF workerPc = "put" THEN 1 ELSE 0) + Len(emitted_nos)
    /\ Len(emitted_nos) <= Len(consumed_nos)
    /\ emitted_nos = SubSeq(consumed_nos, 1, Len(emitted_nos))

\* a line processed while the view was paused, after the pause toggle: both
\* events have an item on the Output Channel although nothing is to be shown
C18_Witness ==
    /\ handler.paused
    /\ handler.lines # <<>>
    /\ workerPc = "get"
    /\ log_processing_input_queue = <<>>
    /\ Len(emitted_nos) = 2
    /\ emitted_view = <<>>

\* the pause events among the entries of queue q, in order
PauseEvents(q) == SelectSeq(q, LAMBDA e : "pause_string" \in DOMAIN e.item)

\* the text the k-th press of the pause button enqueues
KthPauseText(k) == IF k % 2 = 1 THEN "Unpause" ELSE "Pause"

\* C19: under SpecToggle n_ctl counts the presses of the pause button.  Each
\* press has enqueued one event; the k-th carries 'Unpause' for odd k and
\* 'Pause' for even k; the button shows the text of the latest press; and
\* when the worker has consumed every event, the view is paused iff the
\* button shows 'Unpause'.
C19_PauseAlternates ==
    LET waiting == PauseEvents(log_processing_input_queue)
        taken == n_ctl - Len(waiting)
    IN /\ n_enqueued = n_ctl + Len(source_lines)
       /\ taken >= 0
       /\ \A i \in 1..Len(waiting) :
              waiting[i].item["pause_string"] = KthPauseText(taken + i)
       /\ n_ctl >= 1 => pause_button_text = KthPauseText(n_ctl)
       /\ n_ctl = 0 => pause_button_text = "Pause"
       /\ (log_processing_input_queue = <<>> /\ workerPc = "get") =>
              (handler.paused <=> pause_button_text = "Unpause")

\* the third press has paused the view again and the worker has taken it
C19_Witness ==
    /\ n_ctl = 3
    /\ log_processing_input_queue = <<>>
    /\ workerPc = "get"
    /\ handler.paused
    /\ pause_button_text = "Unpause"

\* C21: once a Clear has been handled, a Drain Loop tick hands the Renderer
\* no segment.  (Under SpecClear every line was enqueued before the Clear,
\* so any segment handed over after it is derived from such a line.)
C21_ClearBeatsInFlight ==
    [][(cleared /\ DrainTick)
       => (tick'.update = None
           \/ tick'.update[1].highlighted_text_list = <<>>)]_vars

====
